---- MODULE Spec2Model ----
(***************************************************************************)
(* A model of src/tetris/tetris.cpp: the playfield, the tetrominoes and    *)
(* their rotation system, the tetromino controller (bag, next pieces,      *)
(* hold, landing), the score board, the pausable timer and the game state  *)
(* manager.  Rendering and window titles are left out: they read the state *)
(* and never write it.                                                     *)
(***************************************************************************)
EXTENDS Integers, Sequences, FiniteSets, TLC

(***************************************************************************)
(* Program constants.                                                      *)
(***************************************************************************)
CELL_COLUMNS == 10
CELL_ROWS == 22
VISABLE_ROWS == 20
HIDDEN_ROWS == CELL_ROWS - VISABLE_ROWS
NEXT_PIECES_COUNT == 3
STATES_COUNT == 4
LOCK_DELAY_MILLISECONDS == 500
BAG_SIZE == 7
MAX_LEVEL == 15

(***************************************************************************)
(* Bounds of the model.                                                    *)
(***************************************************************************)
\* the wall clock (SDL_GetTicks) is observed in steps of ClockStep
\* milliseconds, half the lock delay
ClockStep == LOCK_DELAY_MILLISECONDS \div 2
\* the number of pieces dropped before a run starts
OpeningDrops == 11
\* the number of inputs of a run: key events that move, rotate, drop or
\* hold the piece, landings, and steps of the wall clock
MaxInputs == 4
\* the orders random_shuffle may produce, as rotations of the base order
ShuffleSeeds == {0}
\* the pure-function checks: rows a probed board may have filled cells in,
\* and rows, counted from the bottom, a probed piece may be placed in
MaxFillRows == 4
\* the bag on its own: the last of the shuffles tried, the pieces made since
\* a reset, the resets of a run
MaxBagSeed == 2
MaxDraws == 15
MaxBagResets == 1
\* the score board on its own: the calls of onClear(4) that climb the
\* levels, the calls of any number of rows that follow
MaxFourRows == 135
MaxScoreOps == 3
MaxProbeRows == 5
\* the rows asked of a soft drop
MaxDropRows == 2
\* the rows filled in a playfield a piece is moved or rotated over
MaxKickRows == 3

Up == 0
Right == 1
Down == 2
Left == 3

Kinds == {"I", "O", "T", "J", "L", "S", "Z"}
States == 0 .. (STATES_COUNT - 1)
AllColumns == 0 .. (CELL_COLUMNS - 1)

Null == [kind |-> "none"]

Max(S) == CHOOSE x \in S : \A y \in S : y <= x
Min2(a, b) == IF a <= b THEN a ELSE b
\* Uint32 subtraction and addition.  The ticks of the model stay far below
\* 2^32 (which is beyond the integers of TLC) and every subtraction takes an
\* earlier tick from a later one, so that no operation wraps around.
Sub32(a, b) == a - b
Add32(a, b) == a + b

(***************************************************************************)
(* Tetromino shapes: a 16-bit mask per state, most significant bit first.  *)
(***************************************************************************)
shapeOf(kind, state) ==
    CASE kind = "I" -> <<15, 34952, 15, 34952>>[state + 1]
      [] kind = "O" -> 204
      [] kind = "T" -> <<78, 2248, 228, 1220>>[state + 1]
      [] kind = "J" -> <<142, 3208, 226, 1100>>[state + 1]
      [] kind = "L" -> <<46, 2188, 232, 3140>>[state + 1]
      [] kind = "S" -> <<108, 2244, 108, 2244>>[state + 1]
      [] kind = "Z" -> <<198, 1224, 198, 1224>>[state + 1]

heightOf(kind, state) ==
    CASE kind = "I" -> <<1, 4, 1, 4>>[state + 1]
      [] kind = "O" -> 2
      [] OTHER -> <<2, 3, 2, 3>>[state + 1]

widthOf(kind, state) ==
    CASE kind = "I" -> <<4, 1, 4, 1>>[state + 1]
      [] kind = "O" -> 2
      [] OTHER -> <<3, 2, 3, 2>>[state + 1]

\* shape & (0x8000 >> i)
ShapeBit(shape, i) == (shape \div (2 ^ (15 - i))) % 2 = 1

\* ITetromino::split: the cells <<column, row>> of a piece
split(kind, left, bottom, state) ==
    { <<left + (i % STATES_COUNT), bottom - STATES_COUNT + (i \div STATES_COUNT)>> :
        i \in { j \in 0 .. 15 : ShapeBit(shapeOf(kind, state), j) } }

cellsOf(p) == split(p.kind, p.mLeft, p.mBottom, p.mState)

(***************************************************************************)
(* Playfield.  mPlayfield is the sequence of the rows, top row first; a    *)
(* row is the set of its filled columns (the colour of a block is only     *)
(* drawn).                                                                 *)
(***************************************************************************)
EmptyPlayfield == [r \in 1 .. CELL_ROWS |-> {}]

\* isFilledAt with the right edge off by one
isFilledAtOffByOne(pf, column, row) ==
    \/ row < 0
    \/ row >= CELL_ROWS
    \/ column < 0
    \/ column > CELL_COLUMNS
    \/ (column < CELL_COLUMNS /\ column \in pf[row + 1])

\* Playfield::isFilled(int column, int row)
isFilledAt(pf, column, row) ==
    \/ row < 0
    \/ row >= CELL_ROWS
    \/ column < 0
    \/ column >= CELL_COLUMNS
    \/ column \in pf[row + 1]

\* Playfield::isFilled(const Cells&)
isFilled(pf, cells) == \E c \in cells : isFilledAt(pf, c[1], c[2])

\* MarkCells with the row of a cell off by one
MarkCellsOffByOne(pf, cells) ==
    [r \in 1 .. Len(pf) |-> pf[r] \cup { c[1] : c \in { x \in cells : x[2] = r } }]

\* the first loop of Playfield::onLanding: the cells are marked filled
MarkCells(pf, cells) ==
    [r \in 1 .. Len(pf) |-> pf[r] \cup { c[1] : c \in { x \in cells : x[2] = r - 1 } }]

RowFull(row) == row = AllColumns

\* the second loop of Playfield::onLanding stopped after the first full row
EraseFullOnce(pf) ==
    LET full == { r \in 1 .. Len(pf) : RowFull(pf[r]) }
    IN IF full = {}
       THEN pf
       ELSE LET f == CHOOSE r \in full : \A q \in full : r <= q
            IN SubSeq(pf, 1, f - 1) \o SubSeq(pf, f + 1, Len(pf))

\* the second loop of Playfield::onLanding: every full row is erased
EraseFull(pf) == SelectSeq(pf, LAMBDA row : ~RowFull(row))

\* onLanding with the new rows put below the rows kept
onLandingRowsBelow(pf, cells) ==
    LET marked == MarkCells(pf, cells)
        kept == EraseFull(marked)
        cleared == Len(marked) - Len(kept)
    IN [playfield |-> kept \o [i \in 1 .. cleared |-> {}], cleared |-> cleared]

\* Playfield::onLanding: the playfield afterwards and the rows cleared
onLanding(pf, cells) ==
    LET marked == MarkCells(pf, cells)
        kept == EraseFull(marked)
        cleared == Len(marked) - Len(kept)
    IN [playfield |-> [i \in 1 .. cleared |-> {}] \o kept, cleared |-> cleared]

\* Playfield::getLandingSpot, as the number of rows the cells can go down
RECURSIVE LandingDistance(_, _)
LandingDistance(pf, cells) ==
    IF \E c \in cells : isFilledAt(pf, c[1], c[2] + 1)
    THEN 0
    ELSE 1 + LandingDistance(pf, { <<c[1], c[2] + 1>> : c \in cells })

getLandingSpot(pf, cells) ==
    LET d == LandingDistance(pf, cells) IN { <<c[1], c[2] + d>> : c \in cells }

(***************************************************************************)
(* ITetromino.  A piece is a record of its kind and its members.           *)
(***************************************************************************)
\* a piece as its constructor leaves it; id tells the objects apart that
\* the shared pointers of the controller point to
NewPiece(kind, id) ==
    [kind |-> kind, id |-> id, mLeft |-> 0, mBottom |-> 0, mState |-> Up,
     mLockTicks |-> 0, mLocking |-> FALSE]

\* ITetromino::init
init(p) ==
    [p EXCEPT !.mState = Up, !.mLocking = FALSE, !.mLockTicks = 0,
              !.mLeft = (CELL_COLUMNS - widthOf(p.kind, Up)) \div 2,
              !.mBottom = heightOf(p.kind, Up)]

\* ITetromino::lock
lock(p, ticksNow) == [p EXCEPT !.mLocking = TRUE, !.mLockTicks = ticksNow]

\* unlock that clears mLocking without looking below the piece
unlockAlways(p, pf, ticksNow) ==
    [p EXCEPT !.mLocking = FALSE, !.mLockTicks = ticksNow]

\* ITetromino::unlock
unlock(p, pf, ticksNow) ==
    [p EXCEPT !.mLocking = IF ~isFilled(pf, split(p.kind, p.mLeft, p.mBottom + 1, p.mState))
                           THEN FALSE ELSE p.mLocking,
              !.mLockTicks = ticksNow]

\* the loop of ITetromino::spawn run from the highest bottom down
SpawnBottomHighest(p, pf) ==
    LET free == { b \in p.mBottom .. (HIDDEN_ROWS + p.mBottom) :
                    ~isFilled(pf, split(p.kind, p.mLeft, b, p.mState)) }
    IN IF free = {} THEN p.mBottom ELSE CHOOSE b \in free : \A c \in free : b <= c

\* the loop of ITetromino::spawn: the first bottom, from the lowest one up,
\* whose cells are not filled
SpawnBottom(p, pf) ==
    LET free == { b \in p.mBottom .. (HIDDEN_ROWS + p.mBottom) :
                    ~isFilled(pf, split(p.kind, p.mLeft, b, p.mState)) }
    IN IF free = {} THEN p.mBottom ELSE Max(free)

\* ITetromino::spawn
spawn(p, pf, ticksNow) ==
    LET q == init(p)
        r == [q EXCEPT !.mBottom = SpawnBottom(q, pf)]
    IN IF isFilled(pf, split(r.kind, r.mLeft, r.mBottom + 1, r.mState))
       THEN lock(r, ticksNow)
       ELSE r

\* moveLeft that restarts the lock delay of a piece it cannot move
moveLeftTouches(p, pf, ticksNow) ==
    IF ~isFilled(pf, split(p.kind, p.mLeft - 1, p.mBottom, p.mState))
    THEN unlock([p EXCEPT !.mLeft = p.mLeft - 1], pf, ticksNow)
    ELSE unlock(p, pf, ticksNow)

\* ITetromino::moveLeft
moveLeft(p, pf, ticksNow) ==
    IF ~isFilled(pf, split(p.kind, p.mLeft - 1, p.mBottom, p.mState))
    THEN unlock([p EXCEPT !.mLeft = p.mLeft - 1], pf, ticksNow)
    ELSE p

\* ITetromino::moveRight
moveRight(p, pf, ticksNow) ==
    IF ~isFilled(pf, split(p.kind, p.mLeft + 1, p.mBottom, p.mState))
    THEN unlock([p EXCEPT !.mLeft = p.mLeft + 1], pf, ticksNow)
    ELSE p

\* softDrop that locks only a piece that lands before its last row
softDropStrict(p, pf, rows, ticksNow) ==
    IF p.mLocking
    THEN [piece |-> p, dropped |-> 0]
    ELSE LET height == LandingDistance(pf, cellsOf(p))
         IN IF height < rows
            THEN [piece |-> lock([p EXCEPT !.mBottom = p.mBottom + height], ticksNow),
                  dropped |-> height]
            ELSE [piece |-> [p EXCEPT !.mBottom = p.mBottom + rows],
                  dropped |-> rows]

\* ITetromino::softDrop: the piece afterwards and the rows dropped
softDrop(p, pf, rows, ticksNow) ==
    IF p.mLocking
    THEN [piece |-> p, dropped |-> 0]
    ELSE LET height == LandingDistance(pf, cellsOf(p))
         IN IF height <= rows
            THEN [piece |-> lock([p EXCEPT !.mBottom = p.mBottom + height], ticksNow),
                  dropped |-> height]
            ELSE [piece |-> [p EXCEPT !.mBottom = p.mBottom + rows],
                  dropped |-> rows]

\* hardDrop that settles the cells the piece had before the drop
hardDropSettlesFirst(p, pf, ticksNow) ==
    LET l == onLanding(pf, cellsOf(p))
        d == softDrop(p, pf, CELL_ROWS, ticksNow)
    IN [piece |-> d.piece, playfield |-> l.playfield,
        cleard |-> l.cleared, dropped |-> d.dropped]

\* ITetromino::hardDrop
hardDrop(p, pf, ticksNow) ==
    LET d == softDrop(p, pf, CELL_ROWS, ticksNow)
        l == onLanding(pf, cellsOf(d.piece))
    IN [piece |-> d.piece, playfield |-> l.playfield,
        cleard |-> l.cleared, dropped |-> d.dropped]

\* the offsets and attempts of ITetromino3x3::tryRotate, by next state
Offsets3x3 == << <<0, -1>>, <<1, 1>>, <<-1, 0>>, <<0, 0>> >>
Attempts3x3 ==
    << << <<0, 0>>, <<-1, 0>>, <<-1, -1>>, <<0, 2>>, <<-1, 2>> >>,
       << <<0, 0>>, <<-1, 0>>, <<-1, 1>>, <<0, -2>>, <<-1, -2>> >>,
       << <<0, 0>>, <<1, 0>>, <<1, -1>>, <<0, 2>>, <<1, 2>> >>,
       << <<0, 0>>, <<1, 0>>, <<1, 1>>, <<0, -2>>, <<1, -2>> >> >>

\* the offsets and attempts of I_Tetromino::tryRotate, by next state
OffsetsI == << <<-1, -2>>, <<2, 2>>, <<-2, -1>>, <<1, 1>> >>
AttemptsI ==
    << << <<0, 0>>, <<1, 0>>, <<-2, 0>>, <<1, -2>>, <<-2, 1>> >>,
       << <<0, 0>>, <<-2, 0>>, <<1, 0>>, <<-2, -1>>, <<1, 2>> >>,
       << <<0, 0>>, <<-1, 0>>, <<2, 0>>, <<-1, 2>>, <<2, -1>> >>,
       << <<0, 0>>, <<2, 0>>, <<-1, 0>>, <<2, 1>>, <<-1, -2>> >> >>

\* tryRotate that applies the last attempt that fits
tryRotateWithLast(p, pf, ticksNow, offsets, attempts) ==
    LET nextState == (p.mState + 1) % STATES_COUNT
        leftBase == p.mLeft + offsets[nextState + 1][1]
        bottomBase == p.mBottom + offsets[nextState + 1][2]
        tries == attempts[nextState + 1]
        fits(i) == ~isFilled(pf, split(p.kind, leftBase + tries[i][1],
                                       bottomBase + tries[i][2], nextState))
        ok == { i \in 1 .. Len(tries) : fits(i) }
    IN IF ok = {}
       THEN p
       ELSE LET i == CHOOSE k \in ok : \A m \in ok : k >= m
            IN unlock([p EXCEPT !.mLeft = leftBase + tries[i][1],
                                !.mBottom = bottomBase + tries[i][2],
                                !.mState = nextState], pf, ticksNow)

\* ITetromino::tryRotate(offsets, attempts)
tryRotateWith(p, pf, ticksNow, offsets, attempts) ==
    LET nextState == (p.mState + 1) % STATES_COUNT
        leftBase == p.mLeft + offsets[nextState + 1][1]
        bottomBase == p.mBottom + offsets[nextState + 1][2]
        tries == attempts[nextState + 1]
        fits(i) == ~isFilled(pf, split(p.kind, leftBase + tries[i][1],
                                       bottomBase + tries[i][2], nextState))
        ok == { i \in 1 .. Len(tries) : fits(i) }
    IN IF ok = {}
       THEN p
       ELSE LET i == CHOOSE k \in ok : \A m \in ok : k <= m
            IN unlock([p EXCEPT !.mLeft = leftBase + tries[i][1],
                                !.mBottom = bottomBase + tries[i][2],
                                !.mState = nextState], pf, ticksNow)

\* the virtual tryRotate of the seven tetrominoes
tryRotate(p, pf, ticksNow) ==
    CASE p.kind = "O" -> p
      [] p.kind = "I" -> tryRotateWith(p, pf, ticksNow, OffsetsI, AttemptsI)
      [] OTHER -> tryRotateWith(p, pf, ticksNow, Offsets3x3, Attempts3x3)

\* ITetromino::visiable
visiable(p) == p.mBottom > HIDDEN_ROWS

(***************************************************************************)
(* The state.  One variable per singleton, the wall clock of SDL_GetTicks, *)
(* and the counters that bound the runs.                                   *)
(***************************************************************************)
VARIABLES
    mPlayfield,   \* Playfield::mPlayfield
    controller,   \* TetrominoController: mActive, mHeld, mNextPieces,
                  \* mTetrominoCreators, mIndex, mUpdateTicks, mHasHeld,
                  \* and made, the pieces made since the last reset
    scoreBoard,   \* ScoreBoard: mTicksPerRow, mCurrLevel, mCurrCleardRows,
                  \* mTotalCleardRows, mScores
    timer,        \* Timer: mLastTicks, mFrameTicks, mPauseStart,
                  \* mPausedTicks, mHasPaused
    manager,      \* GameStateManager: mCurrState, mLastState (the ids)
    exited,       \* exit(EXIT_SUCCESS) was called
    sdlTicks,     \* SDL_GetTicks()
    nInputs,      \* piece key events, landings and clock steps so far
    probe         \* the last call of a pure-function check and its result

vars == <<mPlayfield, controller, scoreBoard, timer, manager, exited,
          sdlTicks, nInputs, probe>>

\* the singletons as one record, handed through the handlers
World ==
    [mPlayfield |-> mPlayfield, controller |-> controller,
     scoreBoard |-> scoreBoard, timer |-> timer, manager |-> manager,
     exited |-> exited, sdlTicks |-> sdlTicks, nInputs |-> nInputs]

Becomes(w) ==
    /\ mPlayfield' = w.mPlayfield
    /\ controller' = w.controller
    /\ scoreBoard' = w.scoreBoard
    /\ timer' = w.timer
    /\ manager' = w.manager
    /\ exited' = w.exited
    /\ sdlTicks' = w.sdlTicks
    /\ nInputs' = w.nInputs

(***************************************************************************)
(* ScoreBoard                                                              *)
(***************************************************************************)
Speeds == <<1000, 793, 618, 473, 355, 262, 190, 135, 94, 64, 43, 28, 18, 11, 7>>
ClearScores == <<100, 300, 500, 800>>

\* ScoreBoard::reset
ScoreBoardReset ==
    [mTicksPerRow |-> 1000, mCurrLevel |-> 1, mCurrCleardRows |-> 0,
     mTotalCleardRows |-> 0, mScores |-> 0]

\* tryLevelUp that keeps the rows of the level it leaves
tryLevelUpKeepsRows(sb) ==
    IF sb.mCurrLevel >= MAX_LEVEL
    THEN sb
    ELSE LET requiredRows == sb.mCurrLevel * 5
         IN IF sb.mCurrCleardRows < requiredRows
            THEN sb
            ELSE [sb EXCEPT !.mTicksPerRow = Speeds[sb.mCurrLevel + 1],
                            !.mCurrLevel = sb.mCurrLevel + 1]

\* ScoreBoard::tryLevelUp
tryLevelUp(sb) ==
    IF sb.mCurrLevel >= MAX_LEVEL
    THEN sb
    ELSE LET requiredRows == sb.mCurrLevel * 5
         IN IF sb.mCurrCleardRows < requiredRows
            THEN sb
            ELSE [sb EXCEPT !.mTicksPerRow = Speeds[sb.mCurrLevel + 1],
                            !.mCurrCleardRows = sb.mCurrCleardRows - requiredRows,
                            !.mCurrLevel = sb.mCurrLevel + 1]

\* onClear that levels up before it adds the score
onClearLevelFirst(sb, rows) ==
    IF rows > 0
    THEN LET up == tryLevelUp([sb EXCEPT
                       !.mTotalCleardRows = sb.mTotalCleardRows + rows,
                       !.mCurrCleardRows = sb.mCurrCleardRows + rows])
         IN [up EXCEPT !.mScores = sb.mScores + ClearScores[rows] * up.mCurrLevel]
    ELSE sb

\* ScoreBoard::onClear
onClear(sb, rows) ==
    IF rows > 0
    THEN tryLevelUp([sb EXCEPT
             !.mScores = sb.mScores + ClearScores[rows] * sb.mCurrLevel,
             !.mTotalCleardRows = sb.mTotalCleardRows + rows,
             !.mCurrCleardRows = sb.mCurrCleardRows + rows])
    ELSE sb

\* ScoreBoard::onSoftDrop
onSoftDrop(sb, rows) ==
    IF rows > 0 THEN [sb EXCEPT !.mScores = sb.mScores + Min2(rows, 20)] ELSE sb

\* onHardDrop that scores as onSoftDrop does
onHardDropAsSoft(sb, rows) ==
    IF rows > 0 THEN [sb EXCEPT !.mScores = sb.mScores + Min2(rows, 20)] ELSE sb

\* ScoreBoard::onHardDrop
onHardDrop(sb, rows) ==
    IF rows > 0 THEN [sb EXCEPT !.mScores = sb.mScores + Min2(rows * 2, 40)] ELSE sb

(***************************************************************************)
(* Timer                                                                   *)
(***************************************************************************)
\* Timer::getTicks
getTicks(t, now) == Sub32(IF t.mHasPaused THEN t.mPauseStart ELSE now, t.mPausedTicks)

\* pause that restarts a pause that is going on
pauseAgain(t, now) ==
    [t EXCEPT !.mHasPaused = TRUE, !.mPauseStart = now]

\* Timer::pause
pause(t, now) ==
    IF ~t.mHasPaused
    THEN [t EXCEPT !.mHasPaused = TRUE, !.mPauseStart = now]
    ELSE t

\* resume that forgets the ticks spent paused
resumeNoOffset(t, now) ==
    IF t.mHasPaused THEN [t EXCEPT !.mHasPaused = FALSE] ELSE t

\* Timer::resume
resume(t, now) ==
    IF t.mHasPaused
    THEN [t EXCEPT !.mHasPaused = FALSE,
                   !.mPausedTicks = Add32(t.mPausedTicks, Sub32(now, t.mPauseStart))]
    ELSE t

\* Timer::tick, after its SDL_Delay: now is the wall clock after the delay
tick(t, now) ==
    LET currTicks == getTicks(t, now)
    IN [t EXCEPT !.mFrameTicks = Sub32(currTicks, t.mLastTicks),
                 !.mLastTicks = currTicks]

\* the logical time of a world
Now(w) == getTicks(w.timer, w.sdlTicks)

(***************************************************************************)
(* TetrominoController                                                     *)
(***************************************************************************)
\* the orders random_shuffle may leave mTetrominoCreators in
BaseOrder == <<"I", "O", "T", "J", "L", "S", "Z">>
Shuffled(k) == [i \in 1 .. BAG_SIZE |-> BaseOrder[((i - 1 + 3 * k) % BAG_SIZE) + 1]]
Shuffles == { Shuffled(k) : k \in ShuffleSeeds }

\* make that shuffles one piece before the creators are used up
makeShufflesEarly(c, perm) ==
    LET creators == IF c.mIndex >= BAG_SIZE - 1 THEN perm ELSE c.mTetrominoCreators
        index == IF c.mIndex >= BAG_SIZE - 1 THEN 0 ELSE c.mIndex
    IN [controller |-> [c EXCEPT !.mTetrominoCreators = creators, !.mIndex = index + 1,
                                 !.made = c.made + 1],
        piece |-> NewPiece(creators[index + 1], c.made + 1)]

\* TetrominoController::make; perm is what random_shuffle produces when called
make(c, perm) ==
    LET creators == IF c.mIndex >= BAG_SIZE THEN perm ELSE c.mTetrominoCreators
        index == IF c.mIndex >= BAG_SIZE THEN 0 ELSE c.mIndex
    IN [controller |-> [c EXCEPT !.mTetrominoCreators = creators, !.mIndex = index + 1,
                                 !.made = c.made + 1],
        piece |-> NewPiece(creators[index + 1], c.made + 1)]

\* TetrominoController::reset
ControllerReset(w, perm) ==
    LET m0 == make([w.controller EXCEPT !.mIndex = BAG_SIZE, !.made = 0], perm)
        m1 == make(m0.controller, perm)
        m2 == make(m1.controller, perm)
        m3 == make(m2.controller, perm)
    IN [w EXCEPT !.controller =
          [m3.controller EXCEPT
              !.mActive = spawn(m0.piece, w.mPlayfield, Now(w)),
              !.mHeld = Null,
              !.mNextPieces = <<m1.piece, m2.piece, m3.piece>>,
              !.mUpdateTicks = 0,
              !.mHasHeld = FALSE]]

\* next that leaves the piece it returns at the front of the lookahead
nextNoPop(w, perm) ==
    LET c == w.controller
        nextPiece == spawn(Head(c.mNextPieces), w.mPlayfield, Now(w))
        m == make(c, perm)
    IN [world |-> [w EXCEPT !.controller =
                     [m.controller EXCEPT
                         !.mNextPieces = Append(SubSeq(c.mNextPieces, 1,
                                                       Len(c.mNextPieces) - 1), m.piece),
                         !.mHasHeld = FALSE]],
        piece |-> nextPiece]

\* TetrominoController::next: the world afterwards and the piece returned
next(w, perm) ==
    LET c == w.controller
        nextPiece == spawn(Head(c.mNextPieces), w.mPlayfield, Now(w))
        m == make(c, perm)
    IN [world |-> [w EXCEPT !.controller =
                     [m.controller EXCEPT
                         !.mNextPieces = Append(Tail(c.mNextPieces), m.piece),
                         !.mHasHeld = FALSE]],
        piece |-> nextPiece]

\* hold that does not set mHasHeld
holdNoFlag(w, perm) ==
    IF w.controller.mHasHeld
    THEN w
    ELSE LET c == w.controller
             swapped == [w EXCEPT !.controller.mActive = c.mHeld,
                                  !.controller.mHeld = c.mActive]
             n == next(swapped, perm)
             w1 == IF c.mHeld = Null
                   THEN [n.world EXCEPT !.controller.mActive = n.piece]
                   ELSE swapped
         IN [w1 EXCEPT
               !.controller.mActive = spawn(w1.controller.mActive, w1.mPlayfield, Now(w1)),
               !.controller.mHeld = init(w1.controller.mHeld)]

\* hold that does not call init on the piece it holds
holdNoInit(w, perm) ==
    IF w.controller.mHasHeld
    THEN w
    ELSE LET c == w.controller
             swapped == [w EXCEPT !.controller.mActive = c.mHeld,
                                  !.controller.mHeld = c.mActive]
             n == next(swapped, perm)
             w1 == IF c.mHeld = Null
                   THEN [n.world EXCEPT !.controller.mActive = n.piece]
                   ELSE swapped
         IN [w1 EXCEPT
               !.controller.mActive = spawn(w1.controller.mActive, w1.mPlayfield, Now(w1)),
               !.controller.mHasHeld = TRUE]

\* TetrominoController::hold
hold(w, perm) ==
    IF w.controller.mHasHeld
    THEN w
    ELSE LET c == w.controller
             \* mActive.swap(mHeld)
             swapped == [w EXCEPT !.controller.mActive = c.mHeld,
                                  !.controller.mHeld = c.mActive]
             n == next(swapped, perm)
             w1 == IF c.mHeld = Null
                   THEN [n.world EXCEPT !.controller.mActive = n.piece]
                   ELSE swapped
         IN [w1 EXCEPT
               !.controller.mActive = spawn(w1.controller.mActive, w1.mPlayfield, Now(w1)),
               !.controller.mHeld = init(w1.controller.mHeld),
               !.controller.mHasHeld = TRUE]

(***************************************************************************)
(* Game states and GameStateManager                                        *)
(***************************************************************************)
StateIDs == {"None", "Playing", "Paused", "GameOver", "BeforeExit"}

\* Game::reset without the reset of the playfield
GameResetKeepsBoard(w, perm) ==
    ControllerReset([w EXCEPT !.scoreBoard = ScoreBoardReset], perm)

\* Game::reset
GameReset(w, perm) ==
    ControllerReset([w EXCEPT !.mPlayfield = EmptyPlayfield,
                              !.scoreBoard = ScoreBoardReset], perm)

\* GameState::onExit of the state id, with the id of the next state
onExit(w, id, nextStateID, perm) ==
    CASE id = "Paused" /\ nextStateID = "Playing" ->
             [w EXCEPT !.timer = resume(w.timer, w.sdlTicks)]
      [] id = "GameOver" /\ nextStateID = "Playing" -> GameReset(w, perm)
      [] OTHER -> w

\* GameState::onEnter of the state id
onEnter(w, id) ==
    IF id = "Paused" THEN [w EXCEPT !.timer = pause(w.timer, w.sdlTicks)] ELSE w

\* GameStateManager::changeState
changeState(w, id, perm) ==
    LET w1 == IF w.manager.mCurrState # "None"
              THEN onExit(w, w.manager.mCurrState, id, perm)
              ELSE w
        w2 == [w1 EXCEPT !.manager = [mLastState |-> w.manager.mCurrState,
                                      mCurrState |-> id]]
    IN onEnter(w2, id)

\* goBack that always resumes play instead of the last state
goBackToPlaying(w, perm) == changeState(w, "Playing", perm)

\* GameStateManager::goBack
goBack(w, perm) ==
    IF w.manager.mCurrState = "None" \/ w.manager.mLastState = "None"
    THEN w
    ELSE LET w1 == onExit(w, w.manager.mCurrState, w.manager.mLastState, perm)
             w2 == onEnter(w1, w.manager.mLastState)
         IN [w2 EXCEPT !.manager = [mLastState |-> w.manager.mCurrState,
                                    mCurrState |-> w.manager.mLastState]]

\* TetrominoController::land
land(w, perm) ==
    LET r == hardDrop(w.controller.mActive, w.mPlayfield, Now(w))
        w1 == [w EXCEPT !.controller.mActive = r.piece,
                        !.mPlayfield = r.playfield,
                        !.nInputs = w.nInputs + 1]
    IN IF ~visiable(r.piece)
       THEN changeState(w1, "GameOver", perm)
       ELSE LET w2 == [w1 EXCEPT !.scoreBoard =
                          onHardDrop(onClear(w1.scoreBoard, r.cleard), r.dropped)]
                n == next(w2, perm)
                w3 == [n.world EXCEPT !.controller.mActive = n.piece]
            IN IF isFilled(w3.mPlayfield, cellsOf(w3.controller.mActive))
               THEN changeState(w3, "GameOver", perm)
               ELSE w3

\* TetrominoController::onKeyDown
onKeyDown(w, sym, repeat, perm) ==
    LET c == w.controller
    IN CASE sym = "UP" ->
              IF ~repeat
              THEN [w EXCEPT !.controller.mActive = tryRotate(c.mActive, w.mPlayfield, Now(w))]
              ELSE w
         [] sym = "c" -> IF ~repeat THEN hold(w, perm) ELSE w
         [] sym = "DOWN" ->
              LET d == softDrop(c.mActive, w.mPlayfield, 1, Now(w))
              IN [w EXCEPT !.controller.mActive = d.piece,
                           !.scoreBoard = onSoftDrop(w.scoreBoard, d.dropped)]
         [] sym = "LEFT" ->
              [w EXCEPT !.controller.mActive = moveLeft(c.mActive, w.mPlayfield, Now(w))]
         [] sym = "RIGHT" ->
              [w EXCEPT !.controller.mActive = moveRight(c.mActive, w.mPlayfield, Now(w))]
         [] sym = "SPACE" -> land(w, perm)
         [] OTHER -> w

\* LockExpired with > for >=
LockExpiredLate(w) ==
    /\ w.controller.mActive.mLocking
    /\ Sub32(Now(w), w.controller.mActive.mLockTicks) > LOCK_DELAY_MILLISECONDS

\* the test of TetrominoController::update: the lock delay has run out
LockExpired(w) ==
    /\ w.controller.mActive.mLocking
    /\ Sub32(Now(w), w.controller.mActive.mLockTicks) >= LOCK_DELAY_MILLISECONDS

\* TetrominoController::update
ControllerUpdate(w, perm) ==
    IF LockExpired(w)
    THEN [land(w, perm) EXCEPT !.controller.mUpdateTicks = 0]
    ELSE LET c == w.controller
             ticks == Add32(c.mUpdateTicks, w.timer.mFrameTicks)
             rows == ticks \div w.scoreBoard.mTicksPerRow
         IN IF rows > 0
            THEN [w EXCEPT
                    !.controller.mUpdateTicks = ticks % w.scoreBoard.mTicksPerRow,
                    !.controller.mActive =
                        softDrop(c.mActive, w.mPlayfield, rows, Now(w)).piece]
            ELSE [w EXCEPT !.controller.mUpdateTicks = ticks]

\* PlayState::handleEvent, PauseState::handleEvent, GameOver::handleEvent and
\* BeforeExit::handleEvent for a key-down event
handleKeyDown(w, sym, repeat, perm) ==
    CASE w.manager.mCurrState = "Playing" ->
             IF sym = "ESCAPE"
             THEN changeState(w, "Paused", perm)
             ELSE onKeyDown(w, sym, repeat, perm)
      [] w.manager.mCurrState = "Paused" ->
             IF sym = "RETURN" THEN changeState(w, "Playing", perm) ELSE w
      [] w.manager.mCurrState = "GameOver" ->
             IF sym = "RETURN" THEN changeState(w, "Playing", perm) ELSE w
      [] w.manager.mCurrState = "BeforeExit" ->
             IF sym = "ESCAPE"
             THEN [w EXCEPT !.exited = TRUE]
             ELSE IF sym = "RETURN" THEN goBack(w, perm) ELSE w
      [] OTHER -> w

\* handleQuit without the test of the current state
handleQuitAlways(w, perm) == changeState(w, "BeforeExit", perm)

\* the body of the loop of GameStateManager::handleEvents for an SDL_QUIT
handleQuit(w, perm) ==
    IF w.manager.mCurrState # "BeforeExit"
    THEN changeState(w, "BeforeExit", perm)
    ELSE w

\* update that updates the controller in every state
updateInAnyState(w, perm) == ControllerUpdate(w, perm)

\* GameStateManager::update
update(w, perm) ==
    IF w.manager.mCurrState = "Playing" THEN ControllerUpdate(w, perm) ELSE w

(***************************************************************************)
(* The game: the state after main has entered PauseState, and one action   *)
(* per event handled and per frame.                                        *)
(***************************************************************************)
NoProbe == [op |-> "none"]

\* the singletons as constructed, before main enters a state
Constructed(perm) ==
    ControllerReset(
        [mPlayfield |-> EmptyPlayfield,
         controller |-> [mActive |-> Null, mHeld |-> Null, mNextPieces |-> <<>>,
                         mTetrominoCreators |-> BaseOrder, mIndex |-> BAG_SIZE,
                         mUpdateTicks |-> 0, mHasHeld |-> FALSE, made |-> 0],
         scoreBoard |-> ScoreBoardReset,
         timer |-> [mLastTicks |-> 0, mFrameTicks |-> 0, mPauseStart |-> 0,
                    mPausedTicks |-> 0, mHasPaused |-> FALSE],
         manager |-> [mLastState |-> "None", mCurrState |-> "None"],
         exited |-> FALSE, sdlTicks |-> 0, nInputs |-> 0], perm)

\* the game after main has entered PauseState and, when drops > 0, the
\* player has pressed Return and then dropped that many pieces with the
\* hard drop key, touching no other key, before the wall clock has advanced
RECURSIVE HardDrops(_, _, _)
HardDrops(w, drops, perm) ==
    IF drops = 0
    THEN w
    ELSE HardDrops(handleKeyDown(w, "SPACE", FALSE, perm), drops - 1, perm)

Opening(drops, perm) ==
    LET paused == changeState(Constructed(perm), "Paused", perm)
    IN IF drops = 0
       THEN paused
       ELSE HardDrops(handleKeyDown(paused, "RETURN", FALSE, perm), drops, perm)

\* the runs start from a new game or from the stack OpeningDrops pieces high
Init ==
    \E perm \in Shuffles, drops \in {0, OpeningDrops} :
        \E w \in {Opening(drops, perm)} :
           /\ mPlayfield = w.mPlayfield
           /\ controller = w.controller
           /\ scoreBoard = w.scoreBoard
           /\ timer = w.timer
           /\ manager = w.manager
           /\ exited = w.exited
           /\ sdlTicks = w.sdlTicks
           /\ nInputs = 0
           /\ probe = NoProbe

MoveKeys == {"UP", "c", "DOWN", "LEFT", "RIGHT"}
StateKeys == {"ESCAPE", "RETURN"}

\* one more input of the run
Counted(w) == [w EXCEPT !.nInputs = w.nInputs + 1]

\* the step to world w, within the inputs of a run
StepTo(w) ==
    /\ w.nInputs <= MaxInputs
    /\ Becomes(w)
    /\ UNCHANGED probe

\* a key-down event of a key that rotates, holds, drops or moves the piece
MoveKey(sym, repeat, perm) ==
    /\ ~exited
    /\ probe = NoProbe
    /\ \E w \in {handleKeyDown(World, sym, repeat, perm)} :
          StepTo(IF manager.mCurrState = "Playing" THEN Counted(w) ELSE w)

\* a key-down event of the hard drop key
SpaceKey(perm) ==
    /\ ~exited
    /\ probe = NoProbe
    /\ \E w \in {handleKeyDown(World, "SPACE", FALSE, perm)} : StepTo(w)

\* a key-down event of Escape or Return
StateKey(sym, perm) ==
    /\ ~exited
    /\ probe = NoProbe
    /\ \E w \in {handleKeyDown(World, sym, FALSE, perm)} : StepTo(w)

\* an SDL_QUIT event
Quit(perm) ==
    /\ ~exited
    /\ probe = NoProbe
    /\ \E w \in {handleQuit(World, perm)} : StepTo(w)

\* the rest of an iteration of the loop of main: the update of the current
\* state, then Timer::tick, whose SDL_Delay lets the wall clock advance
Frame(delay, perm) ==
    /\ ~exited
    /\ probe = NoProbe
    /\ \E w \in {update(World, perm)} :
          LET now == w.sdlTicks + delay
              ticked == [w EXCEPT !.sdlTicks = now, !.timer = tick(w.timer, now)]
          IN StepTo(IF delay > 0 THEN Counted(ticked) ELSE ticked)

Next ==
    \/ \E sym \in MoveKeys, perm \in Shuffles :
          \E repeat \in (IF sym \in {"UP", "c"} THEN BOOLEAN ELSE {FALSE}) :
             MoveKey(sym, repeat, perm)
    \/ \E perm \in Shuffles : SpaceKey(perm)
    \/ \E sym \in StateKeys, perm \in Shuffles : StateKey(sym, perm)
    \/ \E perm \in Shuffles : Quit(perm)
    \/ \E delay \in {0, ClockStep}, perm \in Shuffles : Frame(delay, perm)

Spec == Init /\ [][Next]_vars

(***************************************************************************)
(* The playfield on its own: a playfield and a call drawn from bounded     *)
(* sets, and the call applied.                                             *)
(***************************************************************************)
\* the rows a probed playfield is made of
ProbeRows == { {}, AllColumns \ {4}, AllColumns \ {4, 9} }

\* the playfields whose lowest MaxFillRows rows are rows of ProbeRows
ProbeBoards ==
    { [r \in 1 .. CELL_ROWS |->
          IF r > CELL_ROWS - MaxFillRows THEN f[r - (CELL_ROWS - MaxFillRows)] ELSE {}] :
        f \in [1 .. MaxFillRows -> ProbeRows] }

InGrid(cells) ==
    \A c \in cells : c[1] \in AllColumns /\ c[2] \in 0 .. (CELL_ROWS - 1)

InitBoard ==
    \E perm \in Shuffles, pf \in ProbeBoards :
        \E w \in {Opening(0, perm)} :
           /\ mPlayfield = pf
           /\ controller = w.controller
           /\ scoreBoard = w.scoreBoard
           /\ timer = w.timer
           /\ manager = w.manager
           /\ exited = w.exited
           /\ sdlTicks = w.sdlTicks
           /\ nInputs = 0
           /\ probe = NoProbe

\* a call of Playfield::isFilled(column, row)
ProbeIsFilled ==
    /\ probe = NoProbe
    /\ \E column \in -1 .. CELL_COLUMNS, row \in -1 .. CELL_ROWS :
          probe' = [op |-> "isFilled", column |-> column, row |-> row,
                    result |-> isFilledAt(mPlayfield, column, row)]
    /\ UNCHANGED <<mPlayfield, controller, scoreBoard, timer, manager, exited,
                   sdlTicks, nInputs>>

\* a call of Playfield::onLanding with the cells of a piece placed in the
\* grid, then a call of Playfield::isFilled with the same cells
ProbeOnLanding ==
    /\ probe = NoProbe
    /\ \E kind \in Kinds, state \in States, left \in AllColumns,
          bottom \in (CELL_ROWS - MaxProbeRows + 1) .. CELL_ROWS :
          \E cells \in {split(kind, left, bottom, state)} :
             /\ InGrid(cells)
             /\ \E r \in {onLanding(mPlayfield, cells)} :
                   /\ mPlayfield' = r.playfield
                   /\ probe' = [op |-> "onLanding", cells |-> cells,
                                before |-> mPlayfield, cleared |-> r.cleared,
                                blocked |-> isFilled(r.playfield, cells)]
    /\ UNCHANGED <<controller, scoreBoard, timer, manager, exited, sdlTicks, nInputs>>

NextBoard ==
    \/ ProbeIsFilled
    \/ ProbeOnLanding

SpecBoard == InitBoard /\ [][NextBoard]_vars

(***************************************************************************)
(* Claims about the playfield, checked under SpecBoard.                    *)
(***************************************************************************)
\* C1 (as amended): isFilled is true of a cell exactly when its column is
\* below 0 or at least 10, its row is below 0 or at least 22, or the cell is
\* in the grid and filled; a cell in a negative row is always blocked.
C1_BlockedOutsideGridOrFilled ==
    probe.op = "isFilled" =>
        (probe.result <=>
            \/ probe.column < 0
            \/ probe.column >= 10
            \/ probe.row >= 22
            \/ probe.row < 0
            \/ probe.column \in mPlayfield[probe.row + 1])

\* C1, witness: a cell of a negative row, its column in the grid, was
\* queried and found blocked.
C1_Witness ==
    /\ probe.op = "isFilled"
    /\ probe.row < 0
    /\ probe.column \in AllColumns
    /\ probe.result

\* C1 (as claimed): isFilled is true when the column is below 0 or at least
\* 10 or the row is at least 22, or when the cell is in the grid and filled,
\* and is not true of a cell of a negative row whose column is in the grid.
C1_NegativeRowNotBlocked ==
    probe.op = "isFilled" =>
        (probe.result <=>
            \/ probe.column < 0
            \/ probe.column >= 10
            \/ probe.row >= 22
            \/ (probe.row >= 0 /\ probe.column \in mPlayfield[probe.row + 1]))

\* C3 (as amended): when onLanding of cells of the grid clears no row,
\* isFilled of the same cells is true right afterwards.
C3_SettledCellsBlocked ==
    (probe.op = "onLanding" /\ probe.cleared = 0) => probe.blocked

\* C3, witness: cells that were not blocked were settled, no row was
\* cleared, and the cells are blocked.
C3_Witness ==
    /\ probe.op = "onLanding"
    /\ probe.cleared = 0
    /\ ~isFilled(probe.before, probe.cells)
    /\ probe.blocked

\* C3 (as claimed): isFilled of the cells is true right after onLanding of
\* them, also when the landing clears rows.
C3_SettledCellsBlockedAlways ==
    probe.op = "onLanding" => probe.blocked

\* the rows of a probed landing once its cells are filled, the full ones
\* among them, and the number of full rows below row r
ProbeMarked ==
    [r \in 1 .. CELL_ROWS |->
        probe.before[r] \cup { c[1] : c \in { x \in probe.cells : x[2] + 1 = r } }]
FullOf(marked) == { r \in 1 .. CELL_ROWS : marked[r] = AllColumns }
FullBelow(full, r) == Cardinality({ f \in full : f > r })

\* C4 (as amended): the playfield always has 22 rows of 10 cells, and when
\* a landing clears k full rows, contiguous or not, the top k rows are empty
\* afterwards and every other row is kept, moved down by the number of
\* cleared rows that were below it (k for a row above all of them, 0 for a
\* row below all of them).
C4_RowsShiftByClearedBelow ==
    /\ Len(mPlayfield) = 22
    /\ \A r \in 1 .. Len(mPlayfield) : mPlayfield[r] \subseteq 0 .. 9
    /\ probe.op = "onLanding" =>
          \A marked \in {ProbeMarked} : \A full \in {FullOf(marked)} :
             /\ probe.cleared = Cardinality(full)
             /\ \A r \in 1 .. probe.cleared : mPlayfield[r] = {}
             /\ \A r \in (1 .. CELL_ROWS) \ full :
                   mPlayfield[r + FullBelow(full, r)] = marked[r]

\* C4, witness: a landing cleared rows that were not contiguous, and a row
\* between them was kept.
C4_Witness ==
    /\ probe.op = "onLanding"
    /\ \E marked \in {ProbeMarked} : \E full \in {FullOf(marked)} :
          \E r \in (1 .. CELL_ROWS) \ full :
             /\ marked[r] # {}
             /\ \E a \in full : a < r
             /\ \E b \in full : b > r

\* C4 (as claimed): when a landing clears k full rows, contiguous or not,
\* every row kept that had a cleared row below it is moved down by k.
C4_RowsShiftByK ==
    probe.op = "onLanding" =>
        \A marked \in {ProbeMarked} : \A full \in {FullOf(marked)} :
            \A r \in (1 .. CELL_ROWS) \ full :
                FullBelow(full, r) > 0 =>
                    /\ r + probe.cleared <= CELL_ROWS
                    /\ mPlayfield[r + probe.cleared] = marked[r]

(***************************************************************************)
(* Claims about the game, checked under Spec.                              *)
(***************************************************************************)
Playing == manager.mCurrState = "Playing"
Active == controller.mActive

\* the position one row below the cells of piece p is blocked
BlockedBelow(p, pf) == isFilled(pf, split(p.kind, p.mLeft, p.mBottom + 1, p.mState))

\* the step is a frame; the step is a key-down event of Escape, of Return
FrameStep == \E delay \in {0, ClockStep}, perm \in Shuffles : Frame(delay, perm)
EscapeStep == \E perm \in Shuffles : StateKey("ESCAPE", perm)
ReturnStep == \E perm \in Shuffles : StateKey("RETURN", perm)
QuitStep == \E perm \in Shuffles : Quit(perm)

\* the step lands the active piece: another piece is active afterwards, or
\* the game is over
LandedStep ==
    /\ Playing
    /\ \/ controller'.mActive.id # Active.id
       \/ manager'.mCurrState = "GameOver"

\* the step leaves the active piece the same object at another place
MovedStep ==
    /\ controller'.mActive.id = Active.id
    /\ \/ controller'.mActive.mLeft # Active.mLeft
       \/ controller'.mActive.mBottom # Active.mBottom
       \/ controller'.mActive.mState # Active.mState

\* C2 (as claimed): while the game is Playing the 4 cells of the active
\* piece lie in the grid and none of them is a filled cell of the playfield.
C2_ActiveInGridAndFree ==
    Playing =>
        /\ Cardinality(cellsOf(Active)) = 4
        /\ InGrid(cellsOf(Active))
        /\ ~isFilled(mPlayfield, cellsOf(Active))

\* C5 (as amended): while the game is Playing a Locking piece is blocked one
\* row below, so that a move or rotation after which it is not blocked below
\* leaves it Free; a piece is Free and blocked below only when a sideways
\* move or a rotation has put a Free piece there, and it stays Free until a
\* soft drop or gravity locks it.
C5_LockingOnlyWhenBlockedBelow ==
    [][/\ (manager'.mCurrState = "Playing" /\ controller'.mActive.mLocking)
             => BlockedBelow(controller'.mActive, mPlayfield')
       /\ (/\ manager'.mCurrState = "Playing"
           /\ ~controller'.mActive.mLocking
           /\ BlockedBelow(controller'.mActive, mPlayfield'))
             => /\ controller'.mActive.id = Active.id
                /\ ~Active.mLocking
                /\ mPlayfield' = mPlayfield
                /\ \/ controller'.mActive = Active
                   \/ /\ Playing
                      /\ \/ controller'.mActive.mLeft # Active.mLeft
                         \/ controller'.mActive.mState # Active.mState
                      /\ controller'.mActive.mLockTicks = Now(World)]_vars

\* C5, witness: the game is Playing and the active piece is Free although
\* the position one row below it is blocked.
C5_Witness ==
    /\ Playing
    /\ ~Active.mLocking
    /\ BlockedBelow(Active, mPlayfield)

\* C5 (as claimed): while the game is Playing the active piece is Locking
\* exactly when the position one row below its cells is blocked.
C5_LockingIffBlockedBelow ==
    Playing => (Active.mLocking <=> BlockedBelow(Active, mPlayfield))

\* C6 (as amended): update lands the active piece exactly when the game is
\* Playing, the piece is Locking and at least 500 ms of logical time have
\* passed since mLockTicks; and the mLockTicks of a Locking piece is the
\* logical time of the later of its grounding (the step that made it
\* Locking) and its last successful shift or rotation.  A piece that is
\* blocked below without being Locking is not landed by the delay.
C6_LockDelay ==
    [][/\ FrameStep =>
             (LandedStep <=>
                 /\ Playing
                 /\ Active.mLocking
                 /\ Now(World) - Active.mLockTicks >= 500)
       /\ controller'.mActive.mLocking =>
             controller'.mActive.mLockTicks =
                 IF \/ controller'.mActive.id # Active.id
                    \/ ~Active.mLocking
                    \/ MovedStep
                 THEN Now(World)
                 ELSE Active.mLockTicks]_vars

\* C6, witness: the game is Playing, the active piece is Locking, it was
\* shifted or rotated after the clock had advanced, and 500 ms have passed
\* since.
C6_Witness ==
    /\ Playing
    /\ Active.mLocking
    /\ Active.mLockTicks > 0
    /\ Now(World) - Active.mLockTicks >= 500

\* C6 (as claimed, its last sentence): once 500 ms have passed since the
\* last successful shift or rotation of a piece that is blocked below, the
\* next update lands it.
C6_LandsWhenBlockedBelow ==
    [][(/\ FrameStep
        /\ Playing
        /\ BlockedBelow(Active, mPlayfield)
        /\ Now(World) - Active.mLockTicks >= 500) => LandedStep]_vars

\* C7: Escape in Playing leads to Paused with the clock paused, Return in
\* Paused leads to Playing with the clock running; the logical time does
\* not change in a step that starts or ends with the clock paused (the
\* pause, the frames and events while paused, the resume), and neither does
\* the time elapsed since the mLockTicks of the active piece.
C7_PauseFreezesLogicalTime ==
    [][/\ (EscapeStep /\ Playing)
             => (manager'.mCurrState = "Paused" /\ timer'.mHasPaused)
       /\ (ReturnStep /\ manager.mCurrState = "Paused")
             => (manager'.mCurrState = "Playing" /\ ~timer'.mHasPaused)
       /\ (timer.mHasPaused \/ timer'.mHasPaused)
             => /\ getTicks(timer', sdlTicks') = getTicks(timer, sdlTicks)
                /\ getTicks(timer', sdlTicks') - controller'.mActive.mLockTicks
                      = getTicks(timer, sdlTicks) - Active.mLockTicks]_vars

\* C7, witness: the game is Playing again after a pause during which the
\* wall clock advanced, and the active piece is Locking.
C7_Witness ==
    /\ Playing
    /\ manager.mLastState = "Paused"
    /\ ~timer.mHasPaused
    /\ timer.mPausedTicks > 0
    /\ Active.mLocking

\* C8 (as amended): in BeforeExit the Escape key (the key that takes Playing
\* to Paused) ends the process, and the Return key (the key that takes
\* Paused and GameOver to Playing) takes the game back to the state that was
\* current when BeforeExit was entered.
C8_EscapeExitsReturnGoesBack ==
    [][/\ (EscapeStep /\ manager.mCurrState = "BeforeExit")
             => (exited' /\ manager' = manager)
       /\ (ReturnStep /\ manager.mCurrState = "BeforeExit")
             => /\ ~exited'
                /\ manager'.mCurrState = manager.mLastState
                /\ manager'.mLastState = "BeforeExit"]_vars

\* C8, witness: the game is back in GameOver from BeforeExit.
C8_Witness ==
    /\ manager.mCurrState = "GameOver"
    /\ manager.mLastState = "BeforeExit"
    /\ ~exited

\* C8 (as claimed): in BeforeExit the Escape key takes the game back to the
\* state that was current when BeforeExit was entered, and the Return key
\* ends the process.
C8_EscapeGoesBackReturnExits ==
    [][/\ (EscapeStep /\ manager.mCurrState = "BeforeExit")
             => (~exited' /\ manager'.mCurrState = manager.mLastState)
       /\ (ReturnStep /\ manager.mCurrState = "BeforeExit")
             => exited']_vars

\* C9: an SDL_QUIT in Playing, Paused or GameOver leads to BeforeExit with
\* that state as the last state; an SDL_QUIT in BeforeExit changes nothing;
\* and whenever the current state is BeforeExit the last state is Playing,
\* Paused or GameOver.
C9_QuitEntersBeforeExitOnce ==
    [][/\ (QuitStep /\ manager.mCurrState \in {"Playing", "Paused", "GameOver"})
             => manager' = [mLastState |-> manager.mCurrState,
                            mCurrState |-> "BeforeExit"]
       /\ (QuitStep /\ manager.mCurrState = "BeforeExit") => UNCHANGED vars
       /\ manager'.mCurrState = "BeforeExit"
             => manager'.mLastState \in {"Playing", "Paused", "GameOver"}]_vars

\* C9, witness: the game is in BeforeExit, entered from GameOver.
C9_Witness ==
    /\ manager.mCurrState = "BeforeExit"
    /\ manager.mLastState = "GameOver"

\* C10 (as claimed): the game goes from Playing to GameOver only when the
\* piece landed is not visible or the piece spawned next is blocked, every
\* newly spawned active piece whose cells are blocked leads to GameOver, and
\* a newly spawned piece whose cells are not blocked leaves the game Playing.
C10_GameOverExactlyWhenBlocked ==
    [][Playing =>
          /\ manager'.mCurrState = "GameOver"
                => \/ /\ controller'.mActive.id = Active.id
                      /\ ~visiable(controller'.mActive)
                   \/ /\ controller'.mActive.id # Active.id
                      /\ isFilled(mPlayfield', cellsOf(controller'.mActive))
          /\ (/\ controller'.mActive.id # Active.id
              /\ isFilled(mPlayfield', cellsOf(controller'.mActive)))
                => manager'.mCurrState = "GameOver"
          /\ (/\ controller'.mActive.id # Active.id
              /\ ~isFilled(mPlayfield', cellsOf(controller'.mActive)))
                => manager'.mCurrState = "Playing"]_vars

\* the step is a key-down event of the soft drop key, of the hard drop key
DownStep == \E perm \in Shuffles : MoveKey("DOWN", FALSE, perm)
SpaceStep == \E perm \in Shuffles : SpaceKey(perm)

\* the step lands the active piece, by the hard drop key or by update
LandStep == LandedStep /\ (SpaceStep \/ FrameStep)

\* the step is a key-down event of the hold key, not repeated
HoldStep == \E perm \in Shuffles : MoveKey("c", FALSE, perm)

\* the ids of the pieces in the slots active, held and lookahead, in order
SlotIds(c) ==
    <<c.mActive.id>>
       \o (IF c.mHeld = Null THEN <<>> ELSE <<c.mHeld.id>>)
       \o [i \in 1 .. Len(c.mNextPieces) |-> c.mNextPieces[i].id]

\* piece p is as spawn leaves a piece of its kind on the playfield now
FreshlySpawned(p) ==
    /\ p.mState = Up
    /\ p = spawn(NewPiece(p.kind, p.id), mPlayfield, Now(World))

\* C11: Return in GameOver leads to Playing with the playfield empty, the
\* score board as new (score 0, level 1, line counters 0, 1000 ticks per
\* row), nothing held, the hold flag clear, a newly shuffled bag of which 4
\* pieces are drawn: the first spawned as the active piece and 3 in the
\* lookahead.  SDL_QUIT in GameOver and Return in Paused leave the
\* playfield, the score board and the pieces as they are.
C11_ReturnInGameOverResets ==
    [][/\ (manager.mCurrState = "GameOver" /\ ReturnStep) =>
             /\ manager'.mCurrState = "Playing"
             /\ mPlayfield' = [r \in 1 .. 22 |-> {}]
             /\ scoreBoard' = [mTicksPerRow |-> 1000, mCurrLevel |-> 1,
                               mCurrCleardRows |-> 0, mTotalCleardRows |-> 0,
                               mScores |-> 0]
             /\ controller'.mHeld = Null
             /\ ~controller'.mHasHeld
             /\ controller'.mUpdateTicks = 0
             /\ controller'.mTetrominoCreators \in Shuffles
             /\ controller'.mIndex = 4
             /\ controller'.made = 4
             /\ controller'.mActive.id = 1
             /\ controller'.mActive.kind = controller'.mTetrominoCreators[1]
             /\ controller'.mActive.mState = Up
             /\ ~controller'.mActive.mLocking
             /\ controller'.mActive.mBottom
                   = HIDDEN_ROWS + heightOf(controller'.mActive.kind, Up)
             /\ controller'.mNextPieces =
                   [i \in 1 .. 3 |->
                       NewPiece(controller'.mTetrominoCreators[i + 1], i + 1)]
       /\ (manager.mCurrState = "GameOver" /\ QuitStep) =>
             /\ manager'.mCurrState = "BeforeExit"
             /\ UNCHANGED <<mPlayfield, scoreBoard, controller>>
       /\ (manager.mCurrState = "Paused" /\ ReturnStep) =>
             /\ manager'.mCurrState = "Playing"
             /\ UNCHANGED <<mPlayfield, scoreBoard, controller>>]_vars

\* C11, witness: the game is Playing, entered from GameOver.
C11_Witness ==
    /\ Playing
    /\ manager.mLastState = "GameOver"
    /\ mPlayfield = EmptyPlayfield
    /\ controller.made = 4

\* C13: the hold key leaves the hold flag set, a hold key pressed while the
\* flag is set changes nothing of the pieces, the playfield or the score,
\* and the flag stays set until the active piece lands or the game is reset;
\* so the second of two holds with no land in between is a no-op, whether
\* the held slot was empty before the first or not.
C13_SecondHoldIsNoOp ==
    [][/\ (Playing /\ HoldStep) => controller'.mHasHeld
       /\ (Playing /\ controller.mHasHeld /\ HoldStep) =>
             UNCHANGED <<controller, mPlayfield, scoreBoard, manager>>
       /\ (controller.mHasHeld /\ ~controller'.mHasHeld) =>
             \/ manager.mCurrState = "GameOver"
             \/ LandStep]_vars

\* C13, witness: the hold flag is set by a hold that found the held slot
\* occupied (the piece held was made after the active one).
C13_Witness ==
    /\ Playing
    /\ controller.mHasHeld
    /\ controller.mHeld # Null
    /\ controller.mHeld.id > Active.id

\* C14: the lookahead holds exactly 3 pieces, and no piece is in two of the
\* slots active, held and lookahead.
C14_ThreeAheadNoAliasing ==
    /\ Len(controller.mNextPieces) = 3
    /\ \A i, j \in 1 .. Len(SlotIds(controller)) :
          i # j => SlotIds(controller)[i] # SlotIds(controller)[j]

\* C14, witness: a game with a piece held, after a land that followed the
\* hold.
C14_Witness ==
    /\ Playing
    /\ controller.mHeld # Null
    /\ ~controller.mHasHeld
    /\ Len(SlotIds(controller)) = 5

\* C19: a hold key pressed while the hold flag is clear leaves the former
\* active piece in the held slot as init leaves it (orientation Up, not
\* Locking) and sets the flag.  If a piece was held it becomes the active
\* piece, freshly spawned, and the lookahead and the bag are unchanged;
\* otherwise the front of the lookahead becomes the active piece, freshly
\* spawned, the rest of the lookahead moves forward and one newly made piece
\* is appended.
C19_HoldSwapsOrAdvances ==
    [][(Playing /\ ~controller.mHasHeld /\ HoldStep) =>
          /\ controller'.mHasHeld
          /\ controller'.mHeld =
                [kind |-> Active.kind, id |-> Active.id,
                 mLeft |-> (10 - widthOf(Active.kind, Up)) \div 2,
                 mBottom |-> heightOf(Active.kind, Up),
                 mState |-> Up, mLockTicks |-> 0, mLocking |-> FALSE]
          /\ FreshlySpawned(controller'.mActive)
          /\ IF controller.mHeld # Null
             THEN /\ controller'.mActive.id = controller.mHeld.id
                  /\ controller'.mActive.kind = controller.mHeld.kind
                  /\ controller'.mNextPieces = controller.mNextPieces
                  /\ controller'.mIndex = controller.mIndex
                  /\ controller'.mTetrominoCreators = controller.mTetrominoCreators
                  /\ controller'.made = controller.made
             ELSE /\ controller'.mActive.id = Head(controller.mNextPieces).id
                  /\ controller'.mActive.kind = Head(controller.mNextPieces).kind
                  /\ controller'.made = controller.made + 1
                  /\ controller'.mNextPieces =
                        Append(Tail(controller.mNextPieces),
                               NewPiece(controller'.mTetrominoCreators[controller'.mIndex],
                                        controller.made + 1))]_vars

\* C19, witness: the hold flag is set by a hold that found the held slot
\* empty: the piece held is as init leaves it and the active piece, made
\* after it, came from the lookahead, which ends with the newest piece.
C19_Witness ==
    /\ Playing
    /\ controller.mHasHeld
    /\ controller.mHeld # Null
    /\ controller.mHeld.id < Active.id
    /\ controller.mHeld = init(controller.mHeld)
    /\ controller.mNextPieces[3].id = controller.made

(***************************************************************************)
(* The controller's bag on its own: the operations that make pieces        *)
(* (the advance of land, hold, the reset of the game) in any order, with   *)
(* several outcomes of random_shuffle, and the kinds made since the last   *)
(* reset kept in probe.                                                    *)
(***************************************************************************)
BagShuffles == { Shuffled(k) : k \in 0 .. MaxBagSeed }

\* the pieces the slots of controller c point to
SlotPieces(c) ==
    ({c.mActive, c.mHeld} \ {Null}) \cup { c.mNextPieces[i] : i \in 1 .. Len(c.mNextPieces) }

\* the kinds made since the last reset: those of old, then the kinds of the
\* pieces of c made after them
DrawnAfter(old, c) ==
    [i \in 1 .. c.made |->
        IF i <= Len(old)
        THEN old[i]
        ELSE (CHOOSE p \in SlotPieces(c) : p.id = i).kind]

InitBag ==
    \E perm \in BagShuffles :
        \E w \in {Opening(0, perm)} :
           /\ mPlayfield = w.mPlayfield
           /\ controller = w.controller
           /\ scoreBoard = w.scoreBoard
           /\ timer = w.timer
           /\ manager = w.manager
           /\ exited = w.exited
           /\ sdlTicks = w.sdlTicks
           /\ nInputs = 0
           /\ probe = [op |-> "bag", drawn |-> DrawnAfter(<<>>, w.controller),
                       resets |-> 0]

\* the controller becomes c, which has made pieces without a reset
BagStepTo(c) ==
    /\ c.made <= MaxDraws
    /\ controller' = c
    /\ probe' = [probe EXCEPT !.drawn = DrawnAfter(probe.drawn, c)]
    /\ UNCHANGED <<mPlayfield, scoreBoard, timer, manager, exited, sdlTicks, nInputs>>

\* mActive = next(), as in TetrominoController::land
BagAdvance(perm) ==
    /\ probe.op = "bag"
    /\ \E n \in {next(World, perm)} :
          BagStepTo([n.world.controller EXCEPT !.mActive = n.piece])

\* TetrominoController::hold
BagHold(perm) ==
    /\ probe.op = "bag"
    /\ BagStepTo(hold(World, perm).controller)

\* TetrominoController::reset, as in Game::reset
BagReset(perm) ==
    /\ probe.op = "bag"
    /\ probe.resets < MaxBagResets
    /\ \E w \in {ControllerReset(World, perm)} :
          /\ controller' = w.controller
          /\ probe' = [op |-> "bag", drawn |-> DrawnAfter(<<>>, w.controller),
                       resets |-> probe.resets + 1]
    /\ UNCHANGED <<mPlayfield, scoreBoard, timer, manager, exited, sdlTicks, nInputs>>

NextBag ==
    \/ \E perm \in BagShuffles : BagAdvance(perm)
    \/ \E perm \in BagShuffles : BagHold(perm)
    \/ \E perm \in BagShuffles : BagReset(perm)

SpecBag == InitBag /\ [][NextBag]_vars

\* C12: of the kinds made since the last reset, every block of 7 numbered
\* 7m+1 .. 7m+7 holds each of the 7 kinds (exactly once, there being 7).
C12_EveryBlockOfSevenIsABag ==
    probe.op = "bag" =>
        \A m \in 0 .. ((Len(probe.drawn) \div 7) - 1) :
            { probe.drawn[7 * m + j] : j \in 1 .. 7 }
               = {"I", "O", "T", "J", "L", "S", "Z"}

\* C12, witness: after a reset two blocks of 7 have been made, in different
\* orders, and a piece is held.
C12_Witness ==
    /\ probe.op = "bag"
    /\ probe.resets = 1
    /\ Len(probe.drawn) >= 14
    /\ SubSeq(probe.drawn, 1, 7) # SubSeq(probe.drawn, 8, 14)
    /\ controller.mHeld # Null

(***************************************************************************)
(* The score board on its own: from a new game a run clears 4 rows at a    *)
(* time, up to level 15 and beyond, and from any point of that up to       *)
(* MaxScoreOps calls of onClear with any number of rows follow.            *)
(***************************************************************************)
InitScore ==
    \E perm \in Shuffles :
        \E w \in {Opening(0, perm)} :
           /\ mPlayfield = w.mPlayfield
           /\ controller = w.controller
           /\ scoreBoard = w.scoreBoard
           /\ timer = w.timer
           /\ manager = w.manager
           /\ exited = w.exited
           /\ sdlTicks = w.sdlTicks
           /\ nInputs = 0
           /\ probe = [op |-> "score", rows |-> 0, before |-> w.scoreBoard]

\* a call of ScoreBoard::onClear(4) of the run that climbs the levels
ScoreFourRows ==
    /\ probe.op \in {"score", "onClear"}
    /\ nInputs = 0
    /\ scoreBoard.mTotalCleardRows < 4 * MaxFourRows
    /\ scoreBoard' = onClear(scoreBoard, 4)
    /\ probe' = [op |-> "onClear", rows |-> 4, before |-> scoreBoard]
    /\ UNCHANGED <<mPlayfield, controller, timer, manager, exited, sdlTicks, nInputs>>

\* a call of ScoreBoard::onClear
ScoreClear(rows) ==
    /\ probe.op \in {"score", "onClear"}
    /\ nInputs < MaxScoreOps
    /\ nInputs' = nInputs + 1
    /\ scoreBoard' = onClear(scoreBoard, rows)
    /\ probe' = [op |-> "onClear", rows |-> rows, before |-> scoreBoard]
    /\ UNCHANGED <<mPlayfield, controller, timer, manager, exited, sdlTicks>>

NextScore ==
    \/ ScoreFourRows
    \/ \E rows \in 0 .. 4 : ScoreClear(rows)

SpecScore == InitScore /\ [][NextScore]_vars

\* C15: onClear(n) with n in 1..4 adds {100,300,500,800}[n] times the level
\* before the call to the score and n to the total of rows cleared and to
\* the rows cleared in the level (of which the level-up of the same call
\* takes the 5 * level rows of the level it leaves); onClear(0) changes
\* nothing.
C15_ClearScoresByLevel ==
    probe.op = "onClear" =>
        IF probe.rows = 0
        THEN scoreBoard = probe.before
        ELSE /\ scoreBoard.mScores = probe.before.mScores
                   + <<100, 300, 500, 800>>[probe.rows] * probe.before.mCurrLevel
             /\ scoreBoard.mTotalCleardRows = probe.before.mTotalCleardRows + probe.rows
             /\ scoreBoard.mCurrCleardRows
                   + (IF scoreBoard.mCurrLevel # probe.before.mCurrLevel
                      THEN 5 * probe.before.mCurrLevel ELSE 0)
                   = probe.before.mCurrCleardRows + probe.rows

\* C15, witness: 4 rows were cleared at level 2 and the level went up.
C15_Witness ==
    /\ probe.op = "onClear"
    /\ probe.rows = 4
    /\ probe.before.mCurrLevel = 2
    /\ scoreBoard.mCurrLevel = 3
    /\ scoreBoard.mScores = probe.before.mScores + 1600

\* the loop 'while level < 15 and the rows of the level >= 5 * level:
\* subtract the threshold, increment the level, set the speed from the table'
RECURSIVE LevelUpLoop(_)
LevelUpLoop(sb) ==
    IF sb.mCurrLevel < 15 /\ sb.mCurrCleardRows >= sb.mCurrLevel * 5
    THEN LevelUpLoop([sb EXCEPT
             !.mCurrCleardRows = sb.mCurrCleardRows - sb.mCurrLevel * 5,
             !.mCurrLevel = sb.mCurrLevel + 1,
             !.mTicksPerRow = Speeds[sb.mCurrLevel + 1]])
    ELSE sb

\* C16: after onClear(n) with n in 1..4 the score board is what the loop
\* makes of the score board before with n added to its rows; the level is
\* in 1..15, the rows of the level are below 5 * level when the level is
\* below 15, and the ticks per row are the entry of the level in the table.
C16_LevelUpStepIsTheLoop ==
    (probe.op = "onClear" /\ probe.rows > 0) =>
        /\ scoreBoard =
              LevelUpLoop([probe.before EXCEPT
                  !.mScores = scoreBoard.mScores,
                  !.mTotalCleardRows = probe.before.mTotalCleardRows + probe.rows,
                  !.mCurrCleardRows = probe.before.mCurrCleardRows + probe.rows])
        /\ scoreBoard.mCurrLevel \in 1 .. 15
        /\ scoreBoard.mCurrLevel < 15
              => scoreBoard.mCurrCleardRows < 5 * scoreBoard.mCurrLevel
        /\ scoreBoard.mTicksPerRow = Speeds[scoreBoard.mCurrLevel]

\* C16, witness: a clear took the level from 14 to 15, leaving rows over.
C16_Witness ==
    /\ probe.op = "onClear"
    /\ probe.before.mCurrLevel = 14
    /\ scoreBoard.mCurrLevel = 15
    /\ scoreBoard.mCurrCleardRows > 0
    /\ scoreBoard.mTicksPerRow = 7

\* the step lands the active piece where it is visible, so that it scores
ScoredLandStep == controller'.mActive.id # Active.id /\ LandStep

\* the rows the active piece can go down, the cells it lands on and the
\* rows that its landing clears
ActiveDistance == LandingDistance(mPlayfield, cellsOf(Active))
ActiveSpot == getLandingSpot(mPlayfield, cellsOf(Active))
ActiveClears == onLanding(mPlayfield, ActiveSpot).cleared

\* the score of clearing rows at the level of score board sb
ClearGain(sb, rows) ==
    IF rows = 0 THEN 0 ELSE <<100, 300, 500, 800>>[rows] * sb.mCurrLevel

C18_HardDropSettlesAtLandingSpot ==
    [][/\ LandStep =>
             /\ isFilled(mPlayfield, { <<c[1], c[2] + 1>> : c \in ActiveSpot })
             /\ ActiveSpot = { <<c[1], c[2] + ActiveDistance>> : c \in cellsOf(Active) }
             /\ \A k \in 0 .. ActiveDistance - 1 :
                   ~isFilled(mPlayfield, { <<c[1], c[2] + k + 1>> : c \in cellsOf(Active) })
             /\ mPlayfield' = onLanding(mPlayfield, ActiveSpot).playfield
             /\ ActiveClears = 0 =>
                   /\ \A c \in ActiveSpot : c[1] \in mPlayfield'[c[2] + 1]
                   /\ \A r \in 1 .. 22 :
                         mPlayfield'[r] \ mPlayfield[r]
                            \subseteq { c[1] : c \in { x \in ActiveSpot : x[2] = r - 1 } }
             /\ (SpaceStep /\ ScoredLandStep) =>
                   scoreBoard'.mScores - scoreBoard.mScores
                         - ClearGain(scoreBoard, ActiveClears)
                      = (IF 2 * ActiveDistance < 40 THEN 2 * ActiveDistance ELSE 40)
       /\ (/\ Playing
           /\ mPlayfield = [r \in 1 .. 22 |-> {}]
           /\ Active.kind = "I"
           /\ FreshlySpawned(Active)
           /\ SpaceStep) =>
             /\ mPlayfield' = [r \in 1 .. 22 |-> IF r = 22 THEN {3, 4, 5, 6} ELSE {}]
             /\ scoreBoard'.mTotalCleardRows = scoreBoard.mTotalCleardRows
             /\ scoreBoard'.mScores = scoreBoard.mScores + 2 * (22 - Active.mBottom)]_vars

\* C18, witness: the first I piece of a game lies in the bottom row of an
\* otherwise empty playfield and the next piece is active.
C18_Witness ==
    /\ Playing
    /\ mPlayfield = [r \in 1 .. 22 |-> IF r = 22 THEN {3, 4, 5, 6} ELSE {}]
    /\ controller.made = 5
    /\ scoreBoard.mScores > 0

(***************************************************************************)
(* softDrop on its own: a call on a piece placed over a playfield of       *)
(* ProbeBoards where none of its cells is filled, Locking only where it is *)
(* blocked below.                                                          *)
(***************************************************************************)
DropLefts == {3, 4, 8}

\* a call of ITetromino::softDrop(rows) at logical time ClockStep
ProbeSoftDrop ==
    /\ probe = NoProbe
    /\ \E kind \in Kinds, state \in States, left \in DropLefts, locking \in BOOLEAN,
          rows \in 1 .. MaxDropRows,
          bottom \in (CELL_ROWS - MaxFillRows - MaxDropRows) .. CELL_ROWS :
          \E p \in {[NewPiece(kind, 1) EXCEPT !.mLeft = left, !.mBottom = bottom,
                                              !.mState = state, !.mLocking = locking]} :
             /\ ~isFilled(mPlayfield, cellsOf(p))
             /\ ~(locking /\ ~BlockedBelow(p, mPlayfield))
             /\ \E r \in {softDrop(p, mPlayfield, rows, ClockStep)} :
                   probe' = [op |-> "softDrop", piece |-> p, rows |-> rows,
                             now |-> ClockStep, after |-> r.piece,
                             dropped |-> r.dropped]
    /\ UNCHANGED <<mPlayfield, controller, scoreBoard, timer, manager, exited,
                   sdlTicks, nInputs>>

NextDrop == ProbeSoftDrop

SpecDrop == InitBoard /\ [][NextDrop]_vars

\* C20: softDrop(rows) leaves a Locking piece as it is and returns 0.  A
\* Free piece whose cells can go down d rows to their landing spot goes
\* down d rows, becomes Locking with mLockTicks the time of the call, and d
\* is returned, when d <= rows; otherwise it goes down rows rows, stays Free
\* and rows is returned.  Column and orientation do not change.
C20_SoftDropMovesOrLocks ==
    probe.op = "softDrop" =>
        \E d \in {LandingDistance(mPlayfield, cellsOf(probe.piece))} :
           /\ probe.after.mLeft = probe.piece.mLeft
           /\ probe.after.mState = probe.piece.mState
           /\ probe.after.kind = probe.piece.kind
           /\ IF probe.piece.mLocking
              THEN probe.after = probe.piece /\ probe.dropped = 0
              ELSE IF d <= probe.rows
              THEN /\ probe.after.mBottom = probe.piece.mBottom + d
                   /\ probe.after.mLocking
                   /\ probe.after.mLockTicks = probe.now
                   /\ probe.dropped = d
              ELSE /\ probe.after.mBottom = probe.piece.mBottom + probe.rows
                   /\ ~probe.after.mLocking
                   /\ probe.after.mLockTicks = probe.piece.mLockTicks
                   /\ probe.dropped = probe.rows

\* C20, witness: a Free piece was asked to drop as many rows, more than one,
\* as it had to its landing spot, and is Locking there.
C20_Witness ==
    /\ probe.op = "softDrop"
    /\ ~probe.piece.mLocking
    /\ probe.rows > 1
    /\ probe.dropped = probe.rows
    /\ probe.after.mLocking
    /\ probe.after.mBottom = probe.piece.mBottom + probe.rows

(***************************************************************************)
(* The keys that move the piece sideways or rotate it, on their own: the   *)
(* game is playing over a playfield of MoveBoards at logical time          *)
(* ClockStep, the active piece is placed where none of its cells is        *)
(* filled, Locking only where it is blocked below, and the key is handled. *)
(***************************************************************************)
\* the playfields whose lowest MaxKickRows rows are rows of ProbeRows
MoveBoards ==
    { [r \in 1 .. CELL_ROWS |->
          IF r > CELL_ROWS - MaxKickRows THEN f[r - (CELL_ROWS - MaxKickRows)] ELSE {}] :
        f \in [1 .. MaxKickRows -> ProbeRows] }

InitMove ==
    \E perm \in Shuffles, pf \in MoveBoards :
        \E w \in {Opening(0, perm)} :
           /\ mPlayfield = pf
           /\ controller = w.controller
           /\ scoreBoard = w.scoreBoard
           /\ timer = w.timer
           /\ manager = w.manager
           /\ exited = w.exited
           /\ sdlTicks = w.sdlTicks
           /\ nInputs = 0
           /\ probe = NoProbe

MoveLefts == {0, 3, 4, 6, 7, 8, 9}
MoveBottoms == {2, 3} \cup ((CELL_ROWS - MaxKickRows - 1) .. CELL_ROWS)
ShiftKeys == {"UP", "LEFT", "RIGHT"}

\* the game as the key finds it, with p the active piece
PlayingWith(p, perm) ==
    [handleKeyDown(World, "RETURN", FALSE, perm) EXCEPT
        !.sdlTicks = ClockStep, !.controller.mActive = p]

\* a key-down event of a key of ShiftKeys, not repeated, in PlayState
ProbeKey ==
    /\ probe = NoProbe
    /\ \E sym \in ShiftKeys, kind \in Kinds, state \in States, left \in MoveLefts,
          bottom \in MoveBottoms, locking \in BOOLEAN, perm \in Shuffles :
          \E p \in {[NewPiece(kind, 1) EXCEPT !.mLeft = left, !.mBottom = bottom,
                                              !.mState = state, !.mLocking = locking]} :
             /\ ~isFilled(mPlayfield, cellsOf(p))
             /\ ~(locking /\ ~BlockedBelow(p, mPlayfield))
             /\ \E w \in {PlayingWith(p, perm)} :
                   /\ Becomes(handleKeyDown(w, sym, FALSE, perm))
                   /\ probe' = [op |-> "key", sym |-> sym, before |-> w]

NextMove == ProbeKey

SpecMove == InitMove /\ [][NextMove]_vars

\* the positions ITetromino::tryRotate tries for piece p, in order
KickCandidates(p) ==
    LET nextState == (p.mState + 1) % STATES_COUNT
        offsets == IF p.kind = "I" THEN OffsetsI ELSE Offsets3x3
        attempts == IF p.kind = "I" THEN AttemptsI ELSE Attempts3x3
    IN [i \in 1 .. Len(attempts[nextState + 1]) |->
          <<p.mLeft + offsets[nextState + 1][1] + attempts[nextState + 1][i][1],
            p.mBottom + offsets[nextState + 1][2] + attempts[nextState + 1][i][2]>>]

\* the candidates of KickCandidates(p) whose cells are not blocked
FreeCandidates(p, pf) ==
    LET cand == KickCandidates(p)
    IN { i \in DOMAIN cand :
           ~isFilled(pf, split(p.kind, cand[i][1], cand[i][2],
                               (p.mState + 1) % STATES_COUNT)) }

\* cells moved so that their least column and least row are 0
Normalized(cells) ==
    LET c0 == CHOOSE c \in { x[1] : x \in cells } : \A x \in cells : c <= x[1]
        r0 == CHOOSE r \in { x[2] : x \in cells } : \A x \in cells : r <= x[2]
    IN { <<x[1] - c0, x[2] - r0>> : x \in cells }

\* cells turned a quarter clockwise on the screen, where rows grow downwards
Clockwise(cells) == { <<0 - x[2], x[1]>> : x \in cells }

\* the piece the key was pressed on
Probed == probe.before.controller.mActive

\* C21: tryRotate on a piece other than O, when some candidate of its
\* table (the table of I for I, the shared one for T, J, L, S, Z) is not
\* blocked, takes the next state, whose shape is the shape turned a quarter
\* clockwise, and the anchor of the first candidate in the order of the
\* table that is not blocked: every earlier candidate is blocked.
C21_RotateTakesFirstFreeCandidate ==
    (probe.op = "key" /\ probe.sym = "UP" /\ Probed.kind # "O"
        /\ FreeCandidates(Probed, probe.before.mPlayfield) # {}) =>
        /\ Active.mState = (Probed.mState + 1) % STATES_COUNT
        /\ Normalized(cellsOf(Active)) = Normalized(Clockwise(cellsOf(Probed)))
        /\ \E i \in FreeCandidates(Probed, probe.before.mPlayfield) :
              /\ <<Active.mLeft, Active.mBottom>> = KickCandidates(Probed)[i]
              /\ \A j \in 1 .. (i - 1) : j \notin FreeCandidates(Probed, probe.before.mPlayfield)
        /\ OffsetsI # Offsets3x3
        /\ AttemptsI # Attempts3x3

\* C21, witness: an I piece was rotated to its fourth candidate, and a later
\* candidate was not blocked either.
C21_Witness ==
    /\ probe.op = "key"
    /\ probe.sym = "UP"
    /\ Probed.kind = "I"
    /\ <<Active.mLeft, Active.mBottom>> = KickCandidates(Probed)[4]
    /\ Active.mState = (Probed.mState + 1) % STATES_COUNT
    /\ 5 \in FreeCandidates(Probed, probe.before.mPlayfield)

\* the key of the probe cannot move the piece: the cells shifted a column
\* are blocked, or every candidate of the rotation is
KeyRejected ==
    /\ probe.op = "key"
    /\ \/ /\ probe.sym = "LEFT"
          /\ isFilled(probe.before.mPlayfield, split(Probed.kind, Probed.mLeft - 1,
                                        Probed.mBottom, Probed.mState))
       \/ /\ probe.sym = "RIGHT"
          /\ isFilled(probe.before.mPlayfield, split(Probed.kind, Probed.mLeft + 1,
                                        Probed.mBottom, Probed.mState))
       \/ /\ probe.sym = "UP"
          /\ Probed.kind # "O"
          /\ FreeCandidates(Probed, probe.before.mPlayfield) = {}

\* C22: a moveLeft or moveRight whose shifted cells are blocked, and a
\* tryRotate all of whose candidates are blocked, change nothing: the piece
\* keeps its anchor, state, mLocking and mLockTicks, and the playfield, the
\* score board and the rest of the controller (held piece, lookahead, bag)
\* are as before the key.
C22_RejectedMoveChangesNothing ==
    KeyRejected =>
        /\ Active = Probed
        /\ mPlayfield = probe.before.mPlayfield
        /\ scoreBoard = probe.before.scoreBoard
        /\ controller = probe.before.controller

\* C22, witness: every candidate of the rotation of a Locking piece was
\* blocked, at a time later than the time it was locked at.
C22_Witness ==
    /\ KeyRejected
    /\ probe.sym = "UP"
    /\ Probed.mLocking
    /\ Now(probe.before) > Probed.mLockTicks

(***************************************************************************)
(* Claims about ITetromino::spawn, checked under Spec.                     *)
(***************************************************************************)
\* the step spawns a piece: another piece is active afterwards (a landing
\* or a hold), or the game is reset
SpawnStep ==
    \/ controller'.mActive.id # Active.id
    \/ manager.mCurrState = "GameOver" /\ manager'.mCurrState = "Playing"

\* the bottoms of piece q, from its height to HIDDEN_ROWS rows further
\* down, where its cells in state Up are not blocked in playfield pf
FreeBottoms(q, pf) ==
    { b \in heightOf(q.kind, Up) .. (heightOf(q.kind, Up) + HIDDEN_ROWS) :
        ~isFilled(pf, split(q.kind, q.mLeft, b, Up)) }

\* piece q is as ITetromino::spawn leaves a piece over playfield pf
SpawnedOver(q, pf) ==
    /\ q.mState = Up
    /\ q.mLeft = (CELL_COLUMNS - widthOf(q.kind, Up)) \div 2
    /\ \/ q.mBottom \in FreeBottoms(q, pf) /\ \A b \in FreeBottoms(q, pf) : b <= q.mBottom
       \/ FreeBottoms(q, pf) = {} /\ q.mBottom = heightOf(q.kind, Up)
    /\ q.mLocking <=> isFilled(pf, split(q.kind, q.mLeft, q.mBottom + 1, Up))

\* C23: the piece a step spawns is in state Up, its left is
\* (CELL_COLUMNS - width) / 2, its bottom is the largest of height ..
\* height + 2 where its cells are not blocked (height when all three are
\* blocked), and it is Locking exactly when the cells one row further down
\* are blocked.
C23_SpawnSnapsDown ==
    [][SpawnStep => SpawnedOver(controller'.mActive, mPlayfield')]_vars

\* C23, witness: the game is playing a piece that is where spawn leaves it
\* over the playfield, one row lower than its height and Locking since now,
\* after an input of the run and the landings before it.
C23_Witness ==
    /\ Playing
    /\ nInputs > 0
    /\ controller.made > NEXT_PIECES_COUNT + 1
    /\ SpawnedOver(Active, mPlayfield)
    /\ Active.mBottom = heightOf(Active.kind, Up) + 1
    /\ Active.mLocking
    /\ Active.mLockTicks = Now(World)

(***************************************************************************)
(* Claims about the rows a landing clears, checked under SpecBoard.        *)
(***************************************************************************)
\* the bottom row of the probed playfield lacked one cell, its other rows
\* were empty, and the cells of the landing cover that cell
LastCellOfBottomRow ==
    /\ probe.op = "onLanding"
    /\ Cardinality(probe.before[CELL_ROWS]) = CELL_COLUMNS - 1
    /\ \A r \in 1 .. (CELL_ROWS - 1) : probe.before[r] = {}
    /\ \E c \in probe.cells : c[2] = CELL_ROWS - 1 /\ c[1] \notin probe.before[CELL_ROWS]

\* C24: onLanding returns the number of rows that are full once the cells
\* are filled, which is from 0 to 4; afterwards the playfield has its 22
\* rows and none of them is full; and the landing that covers the one cell
\* the bottom row of an otherwise empty playfield lacks clears 1 row.
C24_LandingClearsEveryFullRow ==
    probe.op = "onLanding" =>
        /\ probe.cleared = Cardinality(FullOf(ProbeMarked))
        /\ probe.cleared \in 0 .. 4
        /\ Len(mPlayfield) = CELL_ROWS
        /\ \A r \in 1 .. Len(mPlayfield) : mPlayfield[r] # AllColumns
        /\ LastCellOfBottomRow => probe.cleared = 1

\* C24, witness: a landing covered the one cell the bottom row of an
\* otherwise empty playfield lacked, and that row is empty now.
C24_Witness ==
    /\ LastCellOfBottomRow
    /\ probe.cleared = 1
    /\ mPlayfield[CELL_ROWS] = {}

(***************************************************************************)
(* Claims about the clock and the game states, checked under Spec.         *)
(***************************************************************************)
\* the current state is Paused, or BeforeExit entered from Paused
InPause ==
    \/ manager.mCurrState = "Paused"
    \/ manager.mCurrState = "BeforeExit" /\ manager.mLastState = "Paused"

\* the clock is paused exactly in the states of InPause
PausedExactlyInPause == timer.mHasPaused <=> InPause

\* C25: the clock is paused exactly when the current state is Paused, or
\* BeforeExit entered from Paused.  Going back from BeforeExit to Paused
\* leaves the clock paused since the instant it was paused at, and the
\* logical time as it was.  While the state stays GameOver, or BeforeExit
\* entered from Playing or GameOver, the logical time advances as the wall
\* clock does, and in BeforeExit entered from Playing so does the time
\* elapsed since the mLockTicks of the active piece.
C25_ClockPausedExactlyInPause ==
    /\ []PausedExactlyInPause
    /\ [][/\ (/\ manager.mCurrState = "BeforeExit"
              /\ manager.mLastState = "Paused"
              /\ manager'.mCurrState = "Paused")
                => /\ timer'.mHasPaused
                   /\ timer'.mPauseStart = timer.mPauseStart
                   /\ getTicks(timer', sdlTicks') = getTicks(timer, sdlTicks)
          /\ (/\ manager.mCurrState \in {"GameOver", "BeforeExit"}
              /\ ~InPause
              /\ manager' = manager)
                => /\ getTicks(timer', sdlTicks') - getTicks(timer, sdlTicks)
                         = sdlTicks' - sdlTicks
                   /\ manager.mLastState = "Playing"
                         => getTicks(timer', sdlTicks') - controller'.mActive.mLockTicks
                               = (getTicks(timer, sdlTicks) - Active.mLockTicks)
                                    + (sdlTicks' - sdlTicks)]_vars

\* C25, witness: the game is Paused again after going back from BeforeExit,
\* and the clock is still paused since an instant of the game that the wall
\* clock has left behind.
C25_Witness ==
    /\ manager.mCurrState = "Paused"
    /\ manager.mLastState = "BeforeExit"
    /\ timer.mHasPaused
    /\ sdlTicks > timer.mPauseStart
    /\ timer.mPauseStart > 0

\* C26: a step taken while the current state is Paused, GameOver or
\* BeforeExit (an event or a frame), other than the step from GameOver to
\* Playing, changes neither the playfield, nor the controller (the active,
\* held and next pieces, mUpdateTicks, the bag), nor the score board; so
\* they are the same on the return to Playing from Paused or BeforeExit.
C26_NothingMovesOutsidePlaying ==
    [][(/\ manager.mCurrState \in {"Paused", "GameOver", "BeforeExit"}
        /\ ~(manager.mCurrState = "GameOver" /\ manager'.mCurrState = "Playing"))
          => UNCHANGED <<mPlayfield, controller, scoreBoard>>]_vars

\* C26, witness: the game is back in Playing from BeforeExit, with a score,
\* a Locking piece whose lock delay has run out and ticks in mUpdateTicks.
C26_Witness ==
    /\ Playing
    /\ manager.mLastState = "BeforeExit"
    /\ scoreBoard.mScores > 0
    /\ controller.mUpdateTicks > 0
    /\ Active.mLocking
    /\ Now(World) - Active.mLockTicks >= LOCK_DELAY_MILLISECONDS

====
